---- MODULE Spec2Model ----
(***************************************************************************)
(* TestRepo (src/src/lib.rs): an ephemeral CouchDB database per test.      *)
(* TestRepo::new names and creates the database and spawns a watcher task; *)
(* Drop for TestRepo cancels drop_token and blocks its thread until the    *)
(* watcher, which destroys the database, cancels dropped_token.            *)
(***************************************************************************)
EXTENDS Integers, Sequences, FiniteSets, TLC

\* ---------------------------------------------------------------- bounds
NumFixtures == 2

\* `.take(12)` in TestRepo::new
SuffixLen == 12

Fixtures == 1..NumFixtures

\* ----------------------------------------------------------------- names
\* rand::distributions::Alphanumeric draws from A-Z, a-z, 0-9.
Upper == <<"A","B","C","D","E","F","G","H","I","J","K","L","M",
           "N","O","P","Q","R","S","T","U","V","W","X","Y","Z">>
Lower == <<"a","b","c","d","e","f","g","h","i","j","k","l","m",
           "n","o","p","q","r","s","t","u","v","w","x","y","z">>
Digits == <<"0","1","2","3","4","5","6","7","8","9">>
Alphanumeric == Upper \o Lower \o Digits

\* One draw of `sample_iter(&Alphanumeric).take(12)`: sample k is the 12
\* characters of the alphabet that start at offset 26*k (wrapping around).
Sample(k) ==
    [i \in 1..SuffixLen |->
        Alphanumeric[((26 * k + (i - 1)) % Len(Alphanumeric)) + 1]]
\* The draws the model takes: "ABCDEFGHIJKL", "abcdefghijkl" (the same
\* identifier once lowercased) and "0123456789AB".
RawSamples == { Sample(0), Sample(1), Sample(2) }

\* str::to_lowercase on one ASCII character
ToLowerCharKeep(c) == c
ToLowerChar(c) ==
    IF \E i \in 1..Len(Upper) : Upper[i] = c
    THEN Lower[CHOOSE i \in 1..Len(Upper) : Upper[i] = c]
    ELSE c
ToLowercase(s) == [i \in 1..Len(s) |-> ToLowerChar(s[i])]

\* the caller's TestRepoConfig.db_name
BaseNames == { <<"d","b">> }

\* test_identifier and format!("{}-{}", arg_cfg.db_name, test_identifier)
TestIdentifier(raw) == ToLowercase(raw)
UniqueName(base, raw) == base \o <<"-">> \o TestIdentifier(raw)

NoName == <<>>

\* ----------------------------------------------------------------- state
VARIABLES
    flavor,         \* the tokio runtime tokio::spawn runs on
    dbs,            \* the databases that exist in the CouchDB instance
    npc,            \* where each TestRepo::new call is
    cfg,            \* cfg.db_name of each new call (after with_name)
    repo,           \* the db_name handed to T::wrap
    wcfg,           \* the db_name of the cfg clone moved into the watcher
    createArg,      \* the name passed to make_db
    createResult,   \* what make_db returned
    tokens,         \* the is_cancelled flag of each CancellationToken
    wpc,            \* where each watcher task is
    destroyCalls,   \* the names passed to destroy_db, in call order
    destroyResult,  \* what destroy_db returned
    hpc,            \* where each TestRepo value (and its destructor) is
    logs,           \* the log lines written for each fixture
    wd              \* the with_data call on each handle, until its result is taken

vars == <<flavor, dbs, npc, cfg, repo, wcfg, createArg, createResult, tokens,
          wpc, destroyCalls, destroyResult, hpc, logs, wd>>

\* ---------------------------------------------------- CancellationToken
TokenNames == {"drop_token", "drop_child", "dropped_token", "dropped_child"}

\* child_token(): drop_child derives from drop_token, dropped_child from
\* dropped_token.
ChildTokens(t) ==
    CASE t = "drop_token" -> {"drop_child"}
      [] t = "dropped_token" -> {"dropped_child"}
      [] OTHER -> {}

\* CancellationToken::new() for both roots, with their children
FreshTokens == [t \in TokenNames |-> FALSE]

\* CancellationToken::cancel: the token and the tokens derived from it
CancelNoChild(ts, t) == [ts EXCEPT ![t] = TRUE]
CancelAll(ts, t) == [u \in TokenNames |-> TRUE]
Cancel(ts, t) ==
    [u \in TokenNames |-> IF u = t \/ u \in ChildTokens(t) THEN TRUE ELSE ts[u]]

IsCancelled(ts, t) == ts[t]

\* ------------------------------------------------------------ the Store
\* What Client::make_db can answer for `name`: the database is created, or
\* the call fails with PRECONDITION_FAILED (it exists), another status, or
\* no status at all (no response).
MakeDbOutcomes(name) ==
    IF name \in dbs
    THEN {"precondition_failed", "other_status", "no_status"}
    ELSE {"ok", "other_status", "no_status"}

\* What Client::destroy_db can answer: Ok(true) when it removed the
\* database, Ok(false) when the server refused or had nothing to remove,
\* or an error.
DestroyDbOutcomes(name) ==
    IF name \in dbs
    THEN {"ok_true", "ok_false", "err"}
    ELSE {"ok_false", "err"}

\* What Client::db can answer for `name`: a handle on the database, which
\* couch_rs creates when it is missing, or the Store's error.
DbOutcomes(name) ==
    IF name \in dbs
    THEN {"ok", "other_status", "no_status"}
    ELSE {"created", "other_status", "no_status"}

\* What Database::bulk_docs can answer for n documents: one result entry per
\* document (a conflict is an entry too), or the Store's error.
BulkResults(n, conflict) ==
    [i \in 1..n |-> IF conflict /\ i = 1 THEN "conflict" ELSE "ok"]
BulkDocsOutcomes == {"ok", "other_status", "no_status"}

\* the lengths of the `data` slices the model passes to with_data
RecordCounts == {0, 2}

\* no with_data call in progress
NoWrite == [pc |-> "idle", n |-> 0, answer |-> "none", results |-> <<>>,
            ret |-> <<>>]

\* ------------------------------------------------------------- runtime
Flavors == {"multi_thread", "current_thread"}

\* A destructor in its loop holds its thread in std::thread::sleep.
Blocking(f) == hpc[f] \in {"dcheck", "dsleep"}

\* On a current_thread runtime every task shares the thread a destructor
\* blocks; on a multi_thread runtime the tasks have worker threads.
ThreadFree == flavor = "multi_thread" \/ \A g \in Fixtures : ~Blocking(g)

\* ---------------------------------------------------------------- Init
Init ==
    /\ flavor \in Flavors
    /\ dbs \in { {}, { UniqueName(b, Sample(0)) : b \in BaseNames } }
    /\ npc = [f \in Fixtures |-> "idle"]
    /\ cfg = [f \in Fixtures |-> NoName]
    /\ repo = [f \in Fixtures |-> NoName]
    /\ wcfg = [f \in Fixtures |-> NoName]
    /\ createArg = [f \in Fixtures |-> NoName]
    /\ createResult = [f \in Fixtures |-> "none"]
    /\ tokens = [f \in Fixtures |-> FreshTokens]
    /\ wpc = [f \in Fixtures |-> "none"]
    /\ destroyCalls = [f \in Fixtures |-> <<>>]
    /\ destroyResult = [f \in Fixtures |-> "none"]
    /\ hpc = [f \in Fixtures |-> "none"]
    /\ logs = [f \in Fixtures |-> <<>>]
    /\ wd = [f \in Fixtures |-> NoWrite]

\* ------------------------------------------------------- TestRepo::new
\* The name the watcher's cfg clone carries: start_drop_watcher(&drop_token,
\* cfg.clone()).
WatcherCfgBase(base, unique) == base
WatcherCfg(base, unique) == unique

\* new up to the make_db call: the identifier, the unique name, T::wrap, the
\* two tokens and the spawned watcher (start_drop_watcher has no await
\* inside, so it completes at once).  Fixtures are numbered in call order.
NewBegin(f, base, raw) ==
    /\ ThreadFree
    /\ npc[f] = "idle"
    /\ IF f = 1 THEN TRUE ELSE npc[f - 1] # "idle"
    /\ LET unique == UniqueName(base, raw) IN
        /\ cfg' = [cfg EXCEPT ![f] = unique]
        /\ repo' = [repo EXCEPT ![f] = unique]
        /\ wcfg' = [wcfg EXCEPT ![f] = WatcherCfg(base, unique)]
        /\ logs' = [logs EXCEPT ![f] = Append(@, <<"info", "creating", unique>>)]
    /\ tokens' = [tokens EXCEPT ![f] = FreshTokens]
    /\ wpc' = [wpc EXCEPT ![f] = "check"]
    /\ npc' = [npc EXCEPT ![f] = "make_db"]
    /\ UNCHANGED <<flavor, dbs, createArg, createResult, destroyCalls,
                   destroyResult, hpc, wd>>

\* The match on make_db's result: Ok falls through to the TestRepo value,
\* every Err arm panics.
NewOutcomeReuse(res) ==
    IF res \in {"ok", "precondition_failed"} THEN "returned" ELSE "panicked"
NewOutcomeAlways(res) == "returned"
NewOutcomeOnlyExistsPanics(res) ==
    IF res = "precondition_failed" THEN "panicked" ELSE "returned"
NewOutcome(res) == IF res = "ok" THEN "returned" ELSE "panicked"

\* A panic in new unwinds and drops the local drop_token; dropping a
\* CancellationToken does not cancel it.
TokensOnAbortCancel(ts) == Cancel(ts, "drop_token")
TokensOnAbort(ts) == ts

\* c.make_db(&cfg.db_name).await and the match on its result.
NewMakeDb(f, res) ==
    /\ ThreadFree
    /\ npc[f] = "make_db"
    /\ res \in MakeDbOutcomes(cfg[f])
    /\ createArg' = [createArg EXCEPT ![f] = cfg[f]]
    /\ createResult' = [createResult EXCEPT ![f] = res]
    /\ dbs' = IF res = "ok" THEN dbs \cup {cfg[f]} ELSE dbs
    /\ npc' = [npc EXCEPT ![f] = NewOutcome(res)]
    /\ hpc' = [hpc EXCEPT ![f] = IF NewOutcome(res) = "returned" THEN "live" ELSE @]
    /\ tokens' = [tokens EXCEPT ![f] =
                    IF NewOutcome(res) = "panicked" THEN TokensOnAbort(@) ELSE @]
    /\ UNCHANGED <<flavor, cfg, repo, wcfg, wpc, destroyCalls,
                   destroyResult, logs, wd>>

\* ---------------------------------------------------- the watcher task
\* while !drop_child.is_cancelled()
WatcherSeesNoWait(f) == TRUE
WatcherSeesAny(f) == \E g \in Fixtures : IsCancelled(tokens[g], "drop_child")
WatcherSees(f) == IsCancelled(tokens[f], "drop_child")

WatcherCheck(f) ==
    /\ ThreadFree
    /\ wpc[f] = "check"
    /\ wpc' = [wpc EXCEPT ![f] = IF WatcherSees(f) THEN "connect" ELSE "sleep"]
    /\ UNCHANGED <<flavor, dbs, npc, cfg, repo, wcfg, createArg, createResult,
                   tokens, destroyCalls, destroyResult, hpc, logs, wd>>

\* tokio::time::sleep(100 ms).await ends
WatcherWake(f) ==
    /\ ThreadFree
    /\ wpc[f] = "sleep"
    /\ wpc' = [wpc EXCEPT ![f] = "check"]
    /\ UNCHANGED <<flavor, dbs, npc, cfg, repo, wcfg, createArg, createResult,
                   tokens, destroyCalls, destroyResult, hpc, logs, wd>>

\* couch_rs::Client::new(..).unwrap() in TestRepo::drop(cfg): an Err panics
\* the task, which drops dropped_token without cancelling it.
WatcherConnect(f, ok) ==
    /\ ThreadFree
    /\ wpc[f] = "connect"
    /\ wpc' = [wpc EXCEPT ![f] = IF ok THEN "destroy" ELSE "panicked"]
    /\ UNCHANGED <<flavor, dbs, npc, cfg, repo, wcfg, createArg, createResult,
                   tokens, destroyCalls, destroyResult, hpc, logs, wd>>

\* The log line of each arm of the match on destroy_db's result.
DestroyLog(res, name) ==
    CASE res = "ok_true" -> <<"info", "cleaned", name>>
      [] res = "ok_false" -> <<"info", "failed", name>>
      [] OTHER -> <<"error", "error", name>>

\* After TestRepo::drop(cfg).await the task goes on to dropped_token.cancel()
\* whatever destroy_db returned: every arm of the match only logs.
AfterDestroyPanicOnFail(res) == IF res = "err" THEN "panicked" ELSE "signal"
AfterDestroy(res) == "signal"

\* c.destroy_db(&cfg.db_name).await and the match on its result.
WatcherDestroy(f, res) ==
    /\ ThreadFree
    /\ wpc[f] = "destroy"
    /\ res \in DestroyDbOutcomes(wcfg[f])
    /\ destroyCalls' = [destroyCalls EXCEPT ![f] = Append(@, wcfg[f])]
    /\ destroyResult' = [destroyResult EXCEPT ![f] = res]
    /\ dbs' = IF res = "ok_true" THEN dbs \ {wcfg[f]} ELSE dbs
    /\ logs' = [logs EXCEPT ![f] = Append(@, DestroyLog(res, wcfg[f]))]
    /\ wpc' = [wpc EXCEPT ![f] = AfterDestroy(res)]
    /\ UNCHANGED <<flavor, npc, cfg, repo, wcfg, createArg, createResult,
                   tokens, hpc, wd>>

\* dropped_token.cancel(), the task's last statement
WatcherSignal(f) ==
    /\ ThreadFree
    /\ wpc[f] = "signal"
    /\ tokens' = [tokens EXCEPT ![f] = Cancel(@, "dropped_token")]
    /\ wpc' = [wpc EXCEPT ![f] = "done"]
    /\ UNCHANGED <<flavor, dbs, npc, cfg, repo, wcfg, createArg, createResult,
                   destroyCalls, destroyResult, hpc, logs, wd>>

\* ------------------------------------------------ TestRepo::with_data
\* with_data(&self, data) is called on a live handle; its first await is
\* self.repo.client().db(&self.repo.dbname()).
WithDataBegin(f, n) ==
    /\ ThreadFree
    /\ hpc[f] = "live"
    /\ wd[f].pc = "idle"
    /\ wd' = [wd EXCEPT ![f] = [NoWrite EXCEPT !.pc = "db", !.n = n]]
    /\ UNCHANGED <<flavor, dbs, npc, cfg, repo, wcfg, createArg, createResult,
                   tokens, wpc, destroyCalls, destroyResult, hpc, logs>>

\* `?` hands the Store's CouchError back as with_data's own Err.
WithDataErrGeneric(e) == <<"Err", "error">>
WithDataErr(e) == <<"Err", e>>

\* return Ok(result.len())
WithDataOkWritten(results) ==
    <<"Ok", Cardinality({i \in 1..Len(results) : results[i] = "ok"})>>
WithDataOk(results) == <<"Ok", Len(results)>>

\* What with_data does to the fixture's tokens: nothing, on either path.
TokensAfterWriteTeardown(ts, ret) ==
    IF ret[1] = "Err" THEN Cancel(ts, "drop_token") ELSE ts
TokensAfterWrite(ts, ret) == ts

\* let db = self.repo.client().db(&self.repo.dbname()).await?;
WithDataDb(f, res) ==
    /\ ThreadFree
    /\ wd[f].pc = "db"
    /\ res \in DbOutcomes(repo[f])
    /\ dbs' = IF res = "created" THEN dbs \cup {repo[f]} ELSE dbs
    /\ LET ret == IF res \in {"ok", "created"} THEN <<>> ELSE WithDataErr(res) IN
        /\ wd' = [wd EXCEPT ![f] =
                    [@ EXCEPT !.pc = IF ret = <<>> THEN "bulk_docs" ELSE "returned",
                              !.answer = res, !.ret = ret]]
        /\ tokens' = [tokens EXCEPT ![f] =
                        IF ret = <<>> THEN @ ELSE TokensAfterWrite(@, ret)]
    /\ UNCHANGED <<flavor, npc, cfg, repo, wcfg, createArg, createResult,
                   wpc, destroyCalls, destroyResult, hpc, logs>>

\* let result = db.bulk_docs(data).await?; return Ok(result.len());
WithDataBulkDocs(f, res, conflict) ==
    /\ ThreadFree
    /\ wd[f].pc = "bulk_docs"
    /\ res \in BulkDocsOutcomes
    /\ LET results == IF res = "ok" THEN BulkResults(wd[f].n, conflict) ELSE <<>>
           ret == IF res = "ok" THEN WithDataOk(results) ELSE WithDataErr(res) IN
        /\ wd' = [wd EXCEPT ![f] =
                    [@ EXCEPT !.pc = "returned", !.answer = res,
                              !.results = results, !.ret = ret]]
        /\ tokens' = [tokens EXCEPT ![f] = TokensAfterWrite(@, ret)]
    /\ UNCHANGED <<flavor, dbs, npc, cfg, repo, wcfg, createArg, createResult,
                   wpc, destroyCalls, destroyResult, hpc, logs>>

\* The caller takes the Result; the borrow of the handle ends.
WithDataTaken(f) ==
    /\ ThreadFree
    /\ wd[f].pc = "returned"
    /\ wd' = [wd EXCEPT ![f] = NoWrite]
    /\ UNCHANGED <<flavor, dbs, npc, cfg, repo, wcfg, createArg, createResult,
                   tokens, wpc, destroyCalls, destroyResult, hpc, logs>>

\* ------------------------------------------------ Drop for TestRepo
\* self.drop_token.cancel(), the destructor's first statement
DropBegin(f) ==
    /\ ThreadFree
    /\ hpc[f] = "live"
    /\ wd[f].pc = "idle"
    /\ tokens' = [tokens EXCEPT ![f] = Cancel(@, "drop_token")]
    /\ hpc' = [hpc EXCEPT ![f] = "dcheck"]
    /\ UNCHANGED <<flavor, dbs, npc, cfg, repo, wcfg, createArg, createResult,
                   wpc, destroyCalls, destroyResult, logs, wd>>

\* while !self.dropped_token.is_cancelled()
DropSeesNoWait(f) == TRUE
DropSees(f) == IsCancelled(tokens[f], "dropped_child")

DropCheck(f) ==
    /\ hpc[f] = "dcheck"
    /\ hpc' = [hpc EXCEPT ![f] = IF DropSees(f) THEN "dropped" ELSE "dsleep"]
    /\ UNCHANGED <<flavor, dbs, npc, cfg, repo, wcfg, createArg, createResult,
                   tokens, wpc, destroyCalls, destroyResult, logs, wd>>

\* std::thread::sleep(100 ms) ends
DropWake(f) ==
    /\ hpc[f] = "dsleep"
    /\ hpc' = [hpc EXCEPT ![f] = "dcheck"]
    /\ UNCHANGED <<flavor, dbs, npc, cfg, repo, wcfg, createArg, createResult,
                   tokens, wpc, destroyCalls, destroyResult, logs, wd>>

\* ----------------------------------------------------- specifications
WatcherStep(f) ==
    \/ WatcherCheck(f)
    \/ WatcherWake(f)
    \/ \E ok \in BOOLEAN : WatcherConnect(f, ok)
    \/ \E res \in {"ok_true", "ok_false", "err"} : WatcherDestroy(f, res)
    \/ WatcherSignal(f)

DropStep(f) == DropCheck(f) \/ DropWake(f)

Next ==
    \/ \E f \in Fixtures, b \in BaseNames, raw \in RawSamples : NewBegin(f, b, raw)
    \/ \E f \in Fixtures :
         \E res \in {"ok", "precondition_failed", "other_status", "no_status"} :
            NewMakeDb(f, res)
    \/ \E f \in Fixtures : WatcherCheck(f)
    \/ \E f \in Fixtures : WatcherWake(f)
    \/ \E f \in Fixtures, ok \in BOOLEAN : WatcherConnect(f, ok)
    \/ \E f \in Fixtures :
         \E res \in {"ok_true", "ok_false", "err"} : WatcherDestroy(f, res)
    \/ \E f \in Fixtures : WatcherSignal(f)
    \/ \E f \in Fixtures, n \in RecordCounts : WithDataBegin(f, n)
    \/ \E f \in Fixtures :
         \E res \in {"ok", "created", "other_status", "no_status"} :
            WithDataDb(f, res)
    \/ \E f \in Fixtures, conflict \in BOOLEAN :
         \E res \in BulkDocsOutcomes : WithDataBulkDocs(f, res, conflict)
    \/ \E f \in Fixtures : WithDataTaken(f)
    \/ \E f \in Fixtures : DropBegin(f)
    \/ \E f \in Fixtures : DropCheck(f)
    \/ \E f \in Fixtures : DropWake(f)

Spec == Init /\ [][Next]_vars

\* The runtime polls every spawned task that can run, a thread in
\* std::thread::sleep wakes, and the Store answers every request.  Whether
\* and when the caller calls new or lets a TestRepo go out of scope is the
\* caller's choice.
Fairness ==
    \A f \in Fixtures :
        /\ WF_vars(WatcherStep(f))
        /\ WF_vars(DropStep(f))
        /\ WF_vars(\E res \in {"ok", "precondition_failed", "other_status",
                               "no_status"} : NewMakeDb(f, res))

\* The tasks run on worker threads of a multi_thread runtime.
InitMulti == Init /\ flavor = "multi_thread"

FairSpec == InitMulti /\ [][Next]_vars /\ Fairness

\* The same scheduling on whichever runtime the caller built.
FairSpecAnyRuntime == Init /\ [][Next]_vars /\ Fairness

\* ---------------------------------------------------------------- claims
DestroyOutcomes == {"ok_true", "ok_false", "err"}

\* The destructor of f has been entered (drop_token.cancel() has run).
DropEntered(f) == hpc[f] \in {"dcheck", "dsleep", "dropped"}

\* The watcher of f has left its polling loop.
WatcherLeftLoop(f) == wpc[f] \in {"connect", "destroy", "signal", "done", "panicked"}

\* C1: the watcher leaves its loop and calls destroy_db only after the
\* destructor has cancelled drop_token, and the destructor returns only after
\* that destroy_db call has returned.
C1_TeardownOrder ==
    \A f \in Fixtures :
        /\ (WatcherLeftLoop(f) \/ destroyCalls[f] # <<>>) =>
              DropEntered(f) /\ IsCancelled(tokens[f], "drop_token")
        /\ hpc[f] = "dropped" =>
              Len(destroyCalls[f]) = 1 /\ destroyResult[f] \in DestroyOutcomes

C1_Witness ==
    \E f \in Fixtures :
        hpc[f] = "dropped" /\ Len(destroyCalls[f]) = 1 /\ wpc[f] = "done"

NoOtherOwner(f) ==
    \A g \in Fixtures \ {f} :
        ~(cfg[g] = cfg[f] /\ createResult[g] = "ok" /\ destroyResult[g] # "ok_true")

C4_WatcherNeverFails ==
    /\ [](\A f \in Fixtures : wpc[f] # "panicked")
    /\ \A f \in Fixtures : Blocking(f) ~> (hpc[f] = "dropped")

\* C5: when new panics because make_db failed, the watcher it spawned
\* eventually terminates.
C5_NoOrphanWatcher ==
    \A f \in Fixtures :
        (npc[f] = "panicked") ~> (wpc[f] \in {"none", "done"})

\* C6: destroy_db is called at most once per fixture, only with the name
\* that new passed to make_db, and exactly once by the time the destructor
\* has returned.
C6_DestroyOnceSameName ==
    \A f \in Fixtures :
        /\ Len(destroyCalls[f]) <= 1
        /\ \A i \in 1..Len(destroyCalls[f]) :
              createResult[f] = "ok" /\ destroyCalls[f][i] = createArg[f]
        /\ hpc[f] = "dropped" => Len(destroyCalls[f]) = 1

C6_Witness ==
    \E f \in Fixtures :
        /\ hpc[f] = "dropped"
        /\ destroyCalls[f] = <<createArg[f]>>
        /\ destroyResult[f] = "ok_false"

\* C7: while a handle is live (new has returned, the destructor has not been
\* entered) the database of its unique name exists and is the one the
\* wrapped repo names; new returns only after make_db succeeded.
C7_LiveHandleHasDatabase ==
    \A f \in Fixtures :
        /\ hpc[f] = "live" =>
              cfg[f] \in dbs /\ repo[f] = cfg[f] /\ createArg[f] = cfg[f]
        /\ npc[f] = "returned" => createResult[f] = "ok"

C7_Witness ==
    \E f \in Fixtures : hpc[f] = "live" /\ cfg[f] \in dbs

\* C8: when make_db fails (PRECONDITION_FAILED, another status, no status)
\* new panics and no handle exists; every handle's database was created by
\* its own new call.
C8_CreateFailureAborts ==
    \A f \in Fixtures :
        /\ createResult[f] \in {"precondition_failed", "other_status", "no_status"} =>
              npc[f] = "panicked" /\ hpc[f] = "none"
        /\ hpc[f] # "none" => createResult[f] = "ok" /\ createArg[f] = repo[f]

C8_Witness ==
    \E f, g \in Fixtures :
        /\ createResult[f] = "precondition_failed" /\ npc[f] = "panicked"
        /\ createResult[g] = "ok" /\ cfg[g] = cfg[f] /\ hpc[g] = "live"

\* C9: no two live handles have the same unique name, whatever suffixes were
\* drawn.
C9_LiveNamesDistinct ==
    \A f, g \in Fixtures :
        (f # g /\ hpc[f] = "live" /\ hpc[g] = "live") => cfg[f] # cfg[g]

C9_Witness ==
    \E f, g \in Fixtures :
        f # g /\ hpc[f] = "live" /\ hpc[g] = "live" /\ cfg[f] # cfg[g]

\* C10: a token that is cancelled stays cancelled in every later state, the
\* tokens derived from it are cancelled with it, and cancelling it again
\* leaves every token of the fixture as it is.
C10_SignalsMonotonic ==
    [][\A f \in Fixtures : \A t \in TokenNames :
          /\ IsCancelled(tokens[f], t) => IsCancelled(tokens'[f], t)
          /\ IsCancelled(tokens'[f], t) =>
                /\ \A c \in ChildTokens(t) : IsCancelled(tokens'[f], c)
                /\ Cancel(tokens'[f], t) = tokens'[f]]_vars

C10_Witness ==
    \E f \in Fixtures : \A t \in TokenNames : IsCancelled(tokens[f], t)

\* C11: with_data returns Ok(n) with n the number of result entries of
\* bulk_docs, which is the number of records passed, and returns the Store's
\* own error when Client::db or bulk_docs fails.
C11_WithDataResult ==
    \A f \in Fixtures :
        wd[f].pc = "returned" =>
            /\ hpc[f] = "live"
            /\ wd[f].answer = "ok" =>
                  /\ wd[f].ret = <<"Ok", Len(wd[f].results)>>
                  /\ wd[f].ret = <<"Ok", wd[f].n>>
            /\ wd[f].answer # "ok" => wd[f].ret = <<"Err", wd[f].answer>>

C11_Witness ==
    \E f, g \in Fixtures :
        /\ wd[f].pc = "returned" /\ wd[f].n = 2 /\ wd[f].ret = <<"Ok", 2>>
        /\ wd[f].results[1] = "conflict"
        /\ wd[g].pc = "returned" /\ wd[g].ret = <<"Err", "no_status">>

LowerOrDigit == { Lower[i] : i \in 1..Len(Lower) } \cup { Digits[i] : i \in 1..Len(Digits) }

\* name is base, "-" and SuffixLen characters, each a lowercase letter or a
\* digit.
WellFormedName(name, base) ==
    /\ Len(name) = Len(base) + 1 + SuffixLen
    /\ SubSeq(name, 1, Len(base)) = base
    /\ name[Len(base) + 1] = "-"
    /\ \A i \in (Len(base) + 2)..Len(name) : name[i] \in LowerOrDigit

\* C12: the name new passes to make_db, to T::wrap and to the watcher is
\* one and the same: the base name, "-" and 12 characters, each a lowercase
\* letter or a digit.
C12_UniqueNameFormat ==
    \A f \in Fixtures :
        npc[f] # "idle" =>
            /\ \E b \in BaseNames : WellFormedName(cfg[f], b)
            /\ repo[f] = cfg[f]
            /\ wcfg[f] = cfg[f]
            /\ createArg[f] \in {NoName, cfg[f]}

C12_Witness ==
    \E f \in Fixtures :
        /\ createArg[f] = <<"d","b","-","0","1","2","3","4","5","6","7","8","9","a","b">>
        /\ wcfg[f] = createArg[f]
        /\ repo[f] = createArg[f]

\* C13: dropped_token is cancelled only by the step that ends the watcher
\* task, taken after the watcher has seen drop_child cancelled and destroy_db
\* has returned; that step is taken at most once, the task being over.
C13_CompleteOnlyByWatcher ==
    [][\A f \in Fixtures :
          /\ (tokens'[f]["dropped_token"] # tokens[f]["dropped_token"]
                \/ tokens'[f]["dropped_child"] # tokens[f]["dropped_child"]) =>
                /\ wpc[f] = "signal" /\ wpc'[f] = "done"
                /\ ~IsCancelled(tokens[f], "dropped_token")
                /\ IsCancelled(tokens[f], "drop_child")
                /\ destroyResult[f] \in DestroyOutcomes
                /\ Len(destroyCalls[f]) = 1
          /\ wpc[f] = "done" => wpc'[f] = "done"]_vars

C13_Witness ==
    \E f \in Fixtures :
        /\ wpc[f] = "done"
        /\ IsCancelled(tokens[f], "dropped_child")
        /\ hpc[f] = "dsleep"

\* C14: a step of with_data, successful or failed, happens on a handle whose
\* tokens are all uncancelled and changes neither the tokens nor the set of
\* databases, the watchers, the handles or the destroy_db calls.
C14_WithDataFrame ==
    [][\A f \in Fixtures :
          wd'[f] # wd[f] =>
              /\ \A t \in TokenNames : ~IsCancelled(tokens'[f], t)
              /\ tokens' = tokens
              /\ dbs' = dbs
              /\ wpc' = wpc
              /\ wpc[f] \in {"check", "sleep"}
              /\ hpc' = hpc
              /\ destroyCalls' = destroyCalls
              /\ destroyResult' = destroyResult]_vars

C14_Witness ==
    \E f \in Fixtures :
        /\ wd[f].pc = "returned" /\ wd[f].ret[1] = "Err"
        /\ hpc[f] = "live" /\ cfg[f] \in dbs
        /\ \A t \in TokenNames : ~IsCancelled(tokens[f], t)

\* C15: on a current_thread runtime too, a destructor that is waiting
\* eventually returns.
C15_DropReturnsOnOneThread ==
    \A f \in Fixtures :
        (flavor = "current_thread" /\ Blocking(f)) ~> (hpc[f] = "dropped")

\* C16: destroy_db is called only by the watcher of a fixture whose own
\* make_db succeeded; the watcher of a new call that panicked stays in its
\* loop and calls nothing.
C16_DestroyOnlyOwnCreated ==
    \A f \in Fixtures :
        /\ (destroyCalls[f] # <<>> \/ wpc[f] \in {"connect", "destroy", "signal", "done"}) =>
              createResult[f] = "ok" /\ npc[f] = "returned"
        /\ npc[f] = "panicked" =>
              /\ destroyCalls[f] = <<>>
              /\ wpc[f] \in {"check", "sleep"}
              /\ (createResult[f] = "precondition_failed"
                    /\ \A g \in Fixtures \ {f} : cfg[g] # cfg[f] \/ destroyCalls[g] = <<>>)
                   => cfg[f] \in dbs

C16_Witness ==
    \E f, g \in Fixtures :
        /\ npc[f] = "panicked" /\ createResult[f] = "precondition_failed"
        /\ hpc[g] = "live" /\ cfg[g] = cfg[f] /\ cfg[f] \in dbs
        /\ wpc[f] = "sleep"

\* C17: while a handle g is live, whatever a fixture f of another name does
\* in its teardown, the tokens of g are uncancelled, its watcher is in its
\* loop, its database exists, and f's watcher has called destroy_db for f's
\* name only.
C17_DropLeavesOthersAlone ==
    \A f, g \in Fixtures :
        (f # g /\ DropEntered(f) /\ hpc[g] = "live" /\ cfg[f] # cfg[g]) =>
            /\ \A t \in TokenNames : ~IsCancelled(tokens[g], t)
            /\ wpc[g] \in {"check", "sleep"}
            /\ destroyCalls[g] = <<>>
            /\ cfg[g] \in dbs
            /\ \A i \in 1..Len(destroyCalls[f]) : destroyCalls[f][i] = cfg[f]

C17_Witness ==
    \E f, g \in Fixtures :
        /\ f # g /\ cfg[f] # cfg[g]
        /\ hpc[f] = "dropped" /\ destroyResult[f] = "ok_true" /\ cfg[f] \notin dbs
        /\ hpc[g] = "live" /\ cfg[g] \in dbs

====
